---- MODULE Spec2Model ----
(***************************************************************************)
(* Donation Service of FOOD_DONATION (src/app.py): one SQLite table of     *)
(* Donation rows behind three Flask handlers, get_donations, add_donation  *)
(* and claim_donation.  Each request runs in a worker thread with its own  *)
(* SQLAlchemy session; the committed table is the only shared state.       *)
(***************************************************************************)
EXTENDS Integers, Sequences, FiniteSets, TLC

\* ------------------------------------------------------------------ bounds
\* Rows the table may hold (add_donation is not offered beyond it).
MaxRows == 2
\* Worker threads of the server.
NThreads == 2
\* random.uniform's result is modelled on the grid k / Grid.
Grid == 64

\* ------------------------------------------------------- program constants
\* random.uniform(0.5, 10.0): the two arguments, in tenths.
UniformLowTenths == 5
UniformHighTenths == 100

Threads == 1..NThreads
\* Ids a claim request may name: every stored id and one that is not stored.
Ids == 1..(MaxRows + 1)

\* Column defaults of the Donation model.
StatusDefault == "pending"
IconDefault == "U+1F381"

\* ----------------------------------------------------------- Python strings
DigitChars == <<"0", "1", "2", "3", "4", "5", "6", "7", "8", "9">>

\* str(n) for n >= 0, as a sequence of one-character strings.
RECURSIVE DigitSeq(_)
DigitSeq(n) ==
    IF n < 10 THEN <<DigitChars[n + 1]>>
    ELSE DigitSeq(n \div 10) \o <<DigitChars[(n % 10) + 1]>>

RECURSIVE Join(_)
Join(cs) == IF cs = <<>> THEN "" ELSE Head(cs) \o Join(Tail(cs))

\* str(n) / f"{n}" for an int n >= 0.
IntToStr(n) == Join(DigitSeq(n))

\* JSON values of a payload and Python values of a column: a string, a
\* number or null/None.
Str(s) == [kind |-> "str", num |-> 0, str |-> s]
Num(n) == [kind |-> "num", num |-> n, str |-> ""]
None == [kind |-> "null", num |-> 0, str |-> ""]

\* f"{q}" for a value q.
PyFormat(q) ==
    CASE q.kind = "num" -> IntToStr(q.num)
      [] q.kind = "str" -> q.str
      [] OTHER -> "None"

\* ------------------------------------------- calculate_distance_to_receiver
\* The values random.uniform(0.5, 10.0) can return, 0.5 <= k/Grid < 10.0.
Samples == {k \in 0..(10 * Grid) :
              /\ 10 * k >= UniformLowTenths * Grid
              /\ 10 * k < UniformHighTenths * Grid}

\* format(k/Grid, ".1f"): the number of tenths shown, round-half-to-even.
RoundTenths(k) ==
    LET q == (10 * k) \div Grid
        r == (10 * k) % Grid
    IN  IF 2 * r > Grid THEN q + 1
        ELSE IF 2 * r < Grid THEN q
        ELSE IF q % 2 = 0 THEN q ELSE q + 1

\* f"{x:.2f} mi": two fractional digits instead of one.
FormatDistanceTwoDigits(k) ==
    LET h == (100 * k) \div Grid
    IN  DigitSeq(h \div 100) \o <<".">> \o <<DigitChars[((h \div 10) % 10) + 1]>>
          \o <<DigitChars[(h % 10) + 1]>> \o <<" ", "m", "i">>
\* f"{x:.1f} mi" for x = k/Grid, as a sequence of characters.
FormatDistance(k) ==
    LET t == RoundTenths(k)
    IN  DigitSeq(t \div 10) \o <<".">> \o <<DigitChars[(t % 10) + 1]>>
          \o <<" ", "m", "i">>

calculate_distance_to_receiver(k) == FormatDistance(k)

\* ---------------------------------------------------------------- payloads
\* request.json: absent (None) or a dict from keys to JSON values.
NoBody == [present |-> FALSE, fields |-> [k \in {} |-> None]]
Dict(f) == [present |-> TRUE, fields |-> f]

EmptyDict == Dict([k \in {} |-> None])
NoQuantity ==
    Dict([k \in {"donorname", "itemname"} |->
            IF k = "donorname" THEN Str("Asha") ELSE Str("Rice")])
QuantityOnly == Dict([k \in {"quantity"} |-> Num(20)])
FullForm ==
    Dict([k \in {"quantity", "donorname", "itemname", "pickupTime",
                 "donorPhone", "donorAddress", "receiverAddress",
                 "receiverPhone", "foodType"} |->
            CASE k = "quantity" -> Str("7")
              [] k = "donorname" -> Str("Jane's Bakery")
              [] k = "itemname" -> Str("Chicken Sandwiches")
              [] k = "pickupTime" -> Str("3:00 PM Today")
              [] k = "donorPhone" -> Str("555-0100")
              [] k = "donorAddress" -> Str("1 Mill Rd")
              [] k = "receiverAddress" -> Str("9 Oak Ave")
              [] k = "receiverPhone" -> Str("555-0199")
              [] OTHER -> Str("prepared")])
NullItem ==
    Dict([k \in {"quantity", "itemname", "foodType"} |->
            IF k = "itemname" THEN None
            ELSE IF k = "foodType" THEN Str("fresh") ELSE Num(3)])

Bodies == {NoBody, EmptyDict, NoQuantity, QuantityOnly, FullForm, NullItem}

\* key in new_donation_data
Has(body, key) == key \in DOMAIN body.fields
\* new_donation_data.get(key, default)
Get(body, key, default) ==
    IF Has(body, key) THEN body.fields[key] ELSE default

\* Line 88's test without its "quantity" half.
HasAnyBody(body) == body.present /\ DOMAIN body.fields # {}
\* The negation of line 88's test: the body is truthy and has "quantity".
HasRequiredData(body) ==
    body.present /\ DOMAIN body.fields # {} /\ Has(body, "quantity")

\* -------------------------------------------------------------------- rows
\* Donation(...) with the two form keys "donorname" and "itemname" read into
\* each other's column.
NewDonationSwapped(body, dist) ==
    [id |-> 0,
     donor |-> Get(body, "itemname", Str("Web Form User")),
     name |-> Get(body, "donorname", Str("New Food Donation")),
     donor_phone |-> Get(body, "donorPhone", None),
     donorAddress |-> Get(body, "donorAddress", None),
     receiverAddress |-> Get(body, "receiverAddress", None),
     receiverPhone |-> Get(body, "receiverPhone", None),
     foodType |-> Get(body, "foodType", None),
     servings |-> Str(PyFormat(Get(body, "quantity", Num(0))) \o " Servings"),
     distance |-> dist,
     readyTime |-> Get(body, "pickupTime", Str("ASAP")),
     status |-> "",
     icon |-> ""]
\* Donation(...) as add_donation builds it; id, status and icon are still
\* unset and filled in by the INSERT.
NewDonation(body, dist) ==
    [id |-> 0,
     donor |-> Get(body, "donorname", Str("Web Form User")),
     name |-> Get(body, "itemname", Str("New Food Donation")),
     donor_phone |-> Get(body, "donorPhone", None),
     donorAddress |-> Get(body, "donorAddress", None),
     receiverAddress |-> Get(body, "receiverAddress", None),
     receiverPhone |-> Get(body, "receiverPhone", None),
     foodType |-> Get(body, "foodType", None),
     servings |-> Str(PyFormat(Get(body, "quantity", Num(0))) \o " Servings"),
     distance |-> dist,
     readyTime |-> Get(body, "pickupTime", Str("ASAP")),
     status |-> "",
     icon |-> ""]

\* Donation.to_dict
to_dict(row) ==
    [id |-> row.id, name |-> row.name, donor |-> row.donor,
     donor_phone |-> row.donor_phone, donorAddress |-> row.donorAddress,
     receiverAddress |-> row.receiverAddress,
     receiverPhone |-> row.receiverPhone, servings |-> row.servings,
     distance |-> row.distance, readyTime |-> row.readyTime,
     status |-> row.status, icon |-> row.icon, foodType |-> row.foodType]

\* ------------------------------------------------------------------ storage
\* INSERT of a new Donation: the primary key is the next rowid, the unset
\* status and icon take their column defaults.
Insert(tbl, d) ==
    Append(tbl, [d EXCEPT !.id = Len(tbl) + 1,
                          !.status = StatusDefault,
                          !.icon = IconDefault])
\* name is nullable=False: the INSERT of a row without a name is refused.
InsertAllowed(d) == d.name # None

\* A lookup that ignores the id: Donation.query.first().
LookupFirst(tbl, id) == IF tbl # <<>> THEN <<tbl[1]>> ELSE <<>>
\* Donation.query.get(donation_id): the row as a one-element sequence, or
\* the empty sequence for None.
Lookup(tbl, id) == IF id \in 1..Len(tbl) THEN <<tbl[id]>> ELSE <<>>

\* An UPDATE of the status without its WHERE clause.
FlushStatusAll(tbl, d) ==
    [i \in 1..Len(tbl) |-> [tbl[i] EXCEPT !.status = d.status]]
\* The flush of a dirty Donation: UPDATE donations SET status=? WHERE id=?
FlushStatus(tbl, d) == [tbl EXCEPT ![d.id].status = d.status]

\* A failed commit whose write stays in the table (no rollback).
RollbackKeepsWrite(tbl, d) ==
    IF d.id = 0 THEN Insert(tbl, d) ELSE FlushStatus(tbl, d)
\* db.session.rollback() after a failed commit: nothing of the transaction
\* stays in the table.
Rollback(tbl, d) == tbl

\* A claim without the status check.
IsClaimableAlways(d) == TRUE
\* Line 129's guard.
IsClaimable(d) == d.status = "pending"
\* A claim that writes the schema's third status.
ClaimedStatusDelivered == "delivered"
\* Line 130's assignment.
ClaimedStatus == "claimed"

\* Handlers without any try/except.
CaughtNever(access) == FALSE
\* Which failing storage accesses sit inside a try/except of their handler:
\* the two commits do, the list query and the lookup by id do not.
Caught(access) == access = "commit"

\* ---------------------------------------------------------------- responses
NoResp == [code |-> 0, key |-> "", text |-> "", data |-> <<>>]
Json(code, key, text, data) ==
    [code |-> code, key |-> key, text |-> text, data |-> data]

ClaimedText(id) == "Donation " \o IntToStr(id) \o " claimed successfully"
AlreadyText(id, status) ==
    "Donation " \o IntToStr(id) \o " is already " \o status

NoReq == [op |-> "", id |-> 0, body |-> NoBody]
NoPrev == [op |-> "", code |-> 0, id |-> 0, body |-> NoBody]

\* --------------------------------------------------------------------- state
VARIABLES
    table,   \* the committed donations table, row i has id i
    pc,      \* per thread: where its handler stands
    req,     \* per thread: the request it serves
    obj,     \* per thread: the Donation its session holds (<<>> for none)
    resp,    \* per thread: what the handler returned
    exc,     \* per thread: the storage access that raised, "" for none
    before,  \* per thread: the table when its request arrived
    wins,    \* per id: how many claim requests for it have returned 200
    prev,    \* the request that completed last, and its outcome
    u,       \* the value random.uniform returns to the estimator on its own
    d        \* the distance string the estimator made of u, <<>> before

vars == <<table, pc, req, obj, resp, exc, before, wins, prev, u, d>>

\* The samples add_donation draws: the least and the greatest.
LeastSample == CHOOSE k \in Samples : \A j \in Samples : k <= j
GreatestSample == CHOOSE k \in Samples : \A j \in Samples : k >= j
DrawnSamples == {LeastSample, GreatestSample}

IdleInit ==
    /\ pc = [t \in Threads |-> "idle"]
    /\ req = [t \in Threads |-> NoReq]
    /\ obj = [t \in Threads |-> <<>>]
    /\ resp = [t \in Threads |-> NoResp]
    /\ exc = [t \in Threads |-> ""]
    /\ before = [t \in Threads |-> <<>>]
    /\ wins = [i \in Ids |-> 0]
    /\ prev = NoPrev

\* After db.create_all() on a fresh database file: an empty table.
Init ==
    /\ table = <<>>
    /\ IdleInit
    /\ u = LeastSample
    /\ d = <<>>

\* ------------------------------------------------------------------ routing
Arrive(t, r) ==
    /\ pc[t] = "idle"
    /\ pc' = [pc EXCEPT ![t] = r.op]
    /\ req' = [req EXCEPT ![t] = r]
    /\ before' = [before EXCEPT ![t] = table]
    /\ UNCHANGED <<table, obj, resp, exc, wins, prev, u, d>>

\* GET /api/donations
RouteList(t) == Arrive(t, [op |-> "list", id |-> 0, body |-> NoBody])

\* POST /api/donations
RouteCreate(t) ==
    /\ Len(table) < MaxRows
    /\ \E b \in Bodies : Arrive(t, [op |-> "create", id |-> 0, body |-> b])

\* PATCH /api/donations/<int:donation_id>/claim
RouteClaim(t) ==
    \E i \in Ids : Arrive(t, [op |-> "claim", id |-> i, body |-> NoBody])

\* The handler of thread t ends: it returns r, or the exception of a storage
\* access leaves it.
Return(t, r) ==
    /\ pc' = [pc EXCEPT ![t] = "returned"]
    /\ resp' = [resp EXCEPT ![t] = r]
Raise(t, access) ==
    /\ pc' = [pc EXCEPT ![t] = "raised"]
    /\ exc' = [exc EXCEPT ![t] = access]
    /\ UNCHANGED resp
\* A storage access failed: a handler that catches it answers with r.
Fail(t, access, r) ==
    IF Caught(access)
    THEN Return(t, r) /\ exc' = [exc EXCEPT ![t] = access]
    ELSE Raise(t, access)

\* ------------------------------------------------------------ get_donations
get_donations(t) ==
    /\ pc[t] = "list"
    /\ \E ok \in BOOLEAN :
         IF ok
         THEN /\ Return(t, Json(200, "list", "",
                                [i \in 1..Len(table) |-> to_dict(table[i])]))
              /\ UNCHANGED exc
         ELSE Fail(t, "query", Json(500, "error", "", <<>>))
    /\ UNCHANGED <<table, req, obj, before, wins, prev, u, d>>

\* ------------------------------------------------------------- add_donation
\* Lines 86-107: validation, the distance estimate, the new Donation.
add_donation_build(t) ==
    /\ pc[t] = "create"
    /\ IF ~HasRequiredData(req[t].body)
       THEN /\ Return(t, Json(400, "error", "Missing required data", <<>>))
            /\ UNCHANGED obj
       ELSE /\ \E k \in DrawnSamples :
                 obj' = [obj EXCEPT ![t] =
                           <<NewDonation(req[t].body,
                                         calculate_distance_to_receiver(k))>>]
            /\ pc' = [pc EXCEPT ![t] = "create_commit"]
            /\ UNCHANGED resp
    /\ UNCHANGED <<table, req, exc, before, wins, prev, u, d>>

\* Lines 109-119: add, commit, and the rollback of a failed commit.
add_donation_commit(t) ==
    /\ pc[t] = "create_commit"
    /\ \E ok \in BOOLEAN :
         IF ok /\ InsertAllowed(obj[t][1])
         THEN /\ table' = Insert(table, obj[t][1])
              /\ obj' = [obj EXCEPT ![t] = <<table'[Len(table')]>>]
              /\ Return(t, Json(201, "message",
                                "Donation successfully recorded",
                                <<to_dict(table'[Len(table')])>>))
              /\ UNCHANGED exc
         ELSE /\ table' = Rollback(table, obj[t][1])
              /\ obj' = [obj EXCEPT ![t] = <<>>]
              /\ Fail(t, "commit",
                      Json(500, "error",
                           "Failed to save donation to database", <<>>))
    /\ UNCHANGED <<req, before, wins, prev, u, d>>

\* ----------------------------------------------------------- claim_donation
\* Lines 124-127: the lookup by id and the 404 answer.
claim_donation_get(t) ==
    /\ pc[t] = "claim"
    /\ \E ok \in BOOLEAN :
         IF ok
         THEN LET found == Lookup(table, req[t].id)
              IN  /\ obj' = [obj EXCEPT ![t] = found]
                  /\ IF found = <<>>
                     THEN Return(t, Json(404, "error",
                                         "Donation not found", <<>>))
                     ELSE /\ pc' = [pc EXCEPT ![t] = "claim_check"]
                          /\ UNCHANGED resp
                  /\ UNCHANGED exc
         ELSE /\ Fail(t, "get", Json(500, "error", "", <<>>))
              /\ UNCHANGED obj
    /\ UNCHANGED <<table, req, before, wins, prev, u, d>>

\* Lines 129-130 and 140-141: the status check, the status write on the
\* session's object, and the 400 answer.
claim_donation_check(t) ==
    /\ pc[t] = "claim_check"
    /\ IF IsClaimable(obj[t][1])
       THEN /\ obj' = [obj EXCEPT ![t] =
                         <<[obj[t][1] EXCEPT !.status = ClaimedStatus]>>]
            /\ pc' = [pc EXCEPT ![t] = "claim_commit"]
            /\ UNCHANGED resp
       ELSE /\ Return(t, Json(400, "message",
                              AlreadyText(req[t].id, obj[t][1].status), <<>>))
            /\ UNCHANGED obj
    /\ UNCHANGED <<table, req, exc, before, wins, prev, u, d>>

\* Lines 132-139: the commit of the status write, and the rollback of a
\* failed commit.
claim_donation_commit(t) ==
    /\ pc[t] = "claim_commit"
    /\ \E ok \in BOOLEAN :
         IF ok
         THEN /\ table' = FlushStatus(table, obj[t][1])
              /\ Return(t, Json(200, "message", ClaimedText(req[t].id), <<>>))
              /\ wins' = [wins EXCEPT ![req[t].id] = @ + 1]
              /\ UNCHANGED <<obj, exc>>
         ELSE /\ table' = Rollback(table, obj[t][1])
              /\ obj' = [obj EXCEPT ![t] = <<>>]
              /\ Fail(t, "commit",
                      Json(500, "error",
                           "Failed to update donation status", <<>>))
              /\ UNCHANGED wins
    /\ UNCHANGED <<req, before, prev, u, d>>

\* The request is over: the response is sent and the thread's session is
\* discarded; the thread is free for the next request.
Finish(t) ==
    /\ pc[t] \in {"returned", "raised"}
    /\ prev' = [op |-> req[t].op, code |-> resp[t].code,
                id |-> IF resp[t].data # <<>> /\ req[t].op = "create"
                       THEN resp[t].data[1].id ELSE req[t].id,
                body |-> req[t].body]
    /\ pc' = [pc EXCEPT ![t] = "idle"]
    /\ req' = [req EXCEPT ![t] = NoReq]
    /\ obj' = [obj EXCEPT ![t] = <<>>]
    /\ resp' = [resp EXCEPT ![t] = NoResp]
    /\ exc' = [exc EXCEPT ![t] = ""]
    /\ before' = [before EXCEPT ![t] = <<>>]
    /\ UNCHANGED <<table, wins, u, d>>

\* The estimator on its own: one call on the value u.
Estimate ==
    /\ d = <<>>
    /\ d' = calculate_distance_to_receiver(u)
    /\ UNCHANGED <<table, pc, req, obj, resp, exc, before, wins, prev, u>>

\* ----------------------------------------------------------- specifications
\* Requests one at a time: a request arrives only when no other is running.
Quiet(t) == \A o \in Threads \ {t} : pc[o] = "idle"

Next ==
    \E t \in Threads :
       \/ Quiet(t) /\ RouteList(t)
       \/ Quiet(t) /\ RouteCreate(t)
       \/ Quiet(t) /\ RouteClaim(t)
       \/ get_donations(t)
       \/ add_donation_build(t)
       \/ add_donation_commit(t)
       \/ claim_donation_get(t)
       \/ claim_donation_check(t)
       \/ claim_donation_commit(t)
       \/ Finish(t)

Spec == Init /\ [][Next]_vars

\* Concurrent claims: the table holds pending donations, as add_donation
\* left them, and every thread serves one claim request; the steps of the
\* requests interleave in any order.
RECURSIVE PendingTable(_)
PendingTable(n) ==
    IF n = 0 THEN <<>>
    ELSE Insert(PendingTable(n - 1),
                NewDonation(IF n % 2 = 1 THEN QuantityOnly ELSE FullForm,
                            calculate_distance_to_receiver(LeastSample)))

ConcInit ==
    /\ \E n \in 1..MaxRows : table = PendingTable(n)
    /\ IdleInit
    /\ u = LeastSample
    /\ d = <<>>

ConcNext ==
    \E t \in Threads :
       \/ RouteClaim(t)
       \/ claim_donation_get(t)
       \/ claim_donation_check(t)
       \/ claim_donation_commit(t)

ConcSpec == ConcInit /\ [][ConcNext]_vars

\* The distance estimator over every value it can be given.
DistInit ==
    /\ table = <<>>
    /\ IdleInit
    /\ u \in Samples
    /\ d = <<>>

DistNext == Estimate

DistSpec == DistInit /\ [][DistNext]_vars

\* ------------------------------------------------------------------- claims
Done(t) == pc[t] \in {"returned", "raised"}
Stored(tbl, i) == i \in 1..Len(tbl)
\* Thread t serves a claim of an id whose record was pending on arrival.
ClaimOfPending(t) ==
    /\ req[t].op = "claim"
    /\ Stored(before[t], req[t].id)
    /\ before[t][req[t].id].status = "pending"
\* The claims for the id of t's request that returned 200 before t's did.
EarlierWins(t) ==
    wins[req[t].id] - (IF pc[t] = "returned" /\ resp[t].code = 200 THEN 1 ELSE 0)
ClaimersOf(i) == {t \in Threads : req[t].op = "claim" /\ req[t].id = i}

\* C1: of N >= 2 concurrent claim requests for one pending id, exactly one
\* returns 200, the others return a conflict or failure outcome, and the
\* record ends claimed.  Stated for the runs in which no storage access
\* failed, where the claim's outcome is decided by the interleaving alone.
C1_ExactlyOneClaimWins ==
    \A i \in 1..Len(table) :
       (/\ Cardinality(ClaimersOf(i)) >= 2
        /\ \A t \in ClaimersOf(i) : Done(t) /\ exc[t] = "" /\ ClaimOfPending(t))
       => /\ Cardinality({t \in ClaimersOf(i) : resp[t].code = 200}) = 1
          /\ \A t \in ClaimersOf(i) : resp[t].code \in {200, 400, 500}
          /\ table[i].status = "claimed"

\* C2 as stated: in a sequential run a claim on a pending record returns 200
\* and sets the status to claimed, every later claim on the id returns 400
\* with a message naming the current status and leaves the table alone, and
\* no id gets more than one successful claim.  Read over the claims whose
\* handler returned a response.
C2_ClaimOnceAsStated ==
    /\ \A t \in Threads :
          pc[t] = "returned" /\ ClaimOfPending(t)
          => /\ resp[t].code = 200
             /\ table[req[t].id].status = "claimed"
    /\ \A t \in Threads :
          pc[t] = "returned" /\ req[t].op = "claim" /\ EarlierWins(t) >= 1
          => /\ resp[t].code = 400
             /\ table = before[t]
    /\ \A i \in Ids : wins[i] <= 1

\* C2 amended: the same with the storage failures the handler allows for: a
\* claim on a pending record returns 200 and sets the status to claimed
\* unless one of its storage accesses fails, and then the status stays
\* pending; a later claim whose lookup completes returns 400 with the
\* message naming the current status and changes nothing.
C2_ClaimOnce ==
    /\ \A t \in Threads :
          Done(t) /\ ClaimOfPending(t)
          => IF exc[t] = ""
             THEN /\ pc[t] = "returned"
                  /\ resp[t] = Json(200, "message",
                                    "Donation " \o IntToStr(req[t].id)
                                       \o " claimed successfully", <<>>)
                  /\ table = [before[t] EXCEPT ![req[t].id].status = "claimed"]
             ELSE /\ resp[t].code # 200
                  /\ table = before[t]
    /\ \A t \in Threads :
          Done(t) /\ req[t].op = "claim" /\ EarlierWins(t) >= 1 /\ exc[t] = ""
          => /\ pc[t] = "returned"
             /\ resp[t] = Json(400, "message",
                               "Donation " \o IntToStr(req[t].id)
                                  \o " is already " \o table[req[t].id].status,
                               <<>>)
             /\ table = before[t]
    /\ \A i \in Ids : wins[i] <= 1
\* A later claim on an id that was claimed before has been answered.
C2_Witness ==
    \E t \in Threads :
       /\ pc[t] = "returned" /\ req[t].op = "claim"
       /\ resp[t].code = 400 /\ wins[req[t].id] = 1

\* The two halves of C3: the statuses a state may hold, and the changes of a
\* status a step may make.
C3_StatusValues ==
    \A i \in 1..Len(table) : table[i].status \in {"pending", "claimed"}
C3_StatusStep ==
    \A i \in 1..Len(table) :
       Stored(table', i) /\ table'[i].status # table[i].status
       => table[i].status = "pending" /\ table'[i].status = "claimed"
\* C3: after any sequence of list, create and claim requests every stored
\* status is pending or claimed, and the only change of a status any step
\* makes is pending -> claimed: no claimed record becomes pending again and
\* no record is ever delivered.
C3_StatusOnlyAdvances == []C3_StatusValues /\ [][C3_StatusStep]_vars
\* A record has been claimed.
C3_Witness ==
    \E i \in 1..Len(table) : table[i].status = "claimed"

\* C4: a create or claim whose commit failed has returned 500 and the table
\* is as it was when the request arrived: no record added, the status of
\* the claimed-for record still pending.
C4_FailedCommitRollsBack ==
    \A t \in Threads :
       exc[t] = "commit"
       => /\ pc[t] = "returned"
          /\ resp[t].code = 500
          /\ resp[t].key = "error"
          /\ table = before[t]
          /\ req[t].op = "claim" => table[req[t].id].status = "pending"
\* A create and then a claim have both had their commit fail.
C4_Witness ==
    /\ prev.op = "create" /\ prev.code = 500
    /\ \E t \in Threads : exc[t] = "commit" /\ req[t].op = "claim"

\* C5: a create whose body is absent or has no "quantity" key returns 400
\* and the table is the same as before the request.
C5_MissingQuantityRejected ==
    \A t \in Threads :
       /\ Done(t)
       /\ req[t].op = "create"
       /\ (~req[t].body.present \/ "quantity" \notin DOMAIN req[t].body.fields)
       => /\ pc[t] = "returned"
          /\ resp[t] = Json(400, "error", "Missing required data", <<>>)
          /\ table = before[t]
\* A create without a body and one without "quantity" have been refused.
C5_Witness ==
    /\ prev.op = "create" /\ prev.code = 400 /\ ~prev.body.present
    /\ \E t \in Threads :
          /\ pc[t] = "returned" /\ req[t].body = NoQuantity
          /\ resp[t].code = 400

\* C6 as stated: a claim for an id no stored record has returns 404 and
\* mutates nothing.
C6_UnknownIdAsStated ==
    \A t \in Threads :
       Done(t) /\ req[t].op = "claim" /\ ~Stored(before[t], req[t].id)
       => /\ pc[t] = "returned"
          /\ resp[t].code = 404
          /\ table = before[t]
\* C6 amended: a claim for an id no stored record has mutates nothing, and
\* returns 404 unless the lookup itself fails, in which case the lookup's
\* exception leaves the handler.
C6_UnknownId ==
    \A t \in Threads :
       Done(t) /\ req[t].op = "claim" /\ ~Stored(before[t], req[t].id)
       => /\ table = before[t]
          /\ IF exc[t] = ""
             THEN /\ pc[t] = "returned"
                  /\ resp[t] = Json(404, "error", "Donation not found", <<>>)
             ELSE exc[t] = "get" /\ pc[t] = "raised"
\* A claim for an id that is not stored got its 404 while the table holds rows.
C6_Witness ==
    \E t \in Threads :
       /\ pc[t] = "returned" /\ req[t].op = "claim" /\ resp[t].code = 404
       /\ table # <<>> /\ ~Stored(table, req[t].id)

\* What the claim says a record created from payload b shows, field by field.
Given(b, key, default) ==
    IF key \in DOMAIN b.fields THEN b.fields[key] ELSE default
ShowsPayload(r, b) ==
    /\ r.donor = Given(b, "donorname", Str("Web Form User"))
    /\ r.name = Given(b, "itemname", Str("New Food Donation"))
    /\ r.readyTime = Given(b, "pickupTime", Str("ASAP"))
    /\ r.servings = Str(PyFormat(b.fields["quantity"]) \o " Servings")
    /\ r.status = "pending"
    /\ r.donor_phone = Given(b, "donorPhone", None)
    /\ r.donorAddress = Given(b, "donorAddress", None)
    /\ r.receiverAddress = Given(b, "receiverAddress", None)
    /\ r.receiverPhone = Given(b, "receiverPhone", None)
    /\ r.foodType = Given(b, "foodType", None)
    /\ b = QuantityOnly
       => /\ r.donor.str = "Web Form User"
          /\ r.name.str = "New Food Donation"
          /\ r.readyTime.str = "ASAP"
          /\ r.servings.str = "20 Servings"

\* C7: a list that follows a successful create of payload P yields exactly
\* one record for that create, with the defaults and mappings applied to P
\* and status pending.
C7_CreateThenList ==
    \A t \in Threads :
       /\ pc[t] = "returned" /\ req[t].op = "list"
       /\ prev.op = "create" /\ prev.code = 201
       => LET hits == {i \in 1..Len(resp[t].data) :
                         resp[t].data[i].id = prev.id}
          IN  /\ resp[t].code = 200
              /\ Cardinality(hits) = 1
              /\ \A i \in hits : ShowsPayload(resp[t].data[i], prev.body)
\* A list has answered right after the create of the full form, as the second row.
C7_Witness ==
    \E t \in Threads :
       /\ pc[t] = "returned" /\ req[t].op = "list"
       /\ prev.op = "create" /\ prev.code = 201 /\ prev.body = FullForm
       /\ Len(resp[t].data) = 2

\* Reading of a distance string: its form and the number it shows.
IsDigit(c) == \E i \in 1..10 : DigitChars[i] = c
DigitValue(c) == (CHOOSE i \in 1..10 : DigitChars[i] = c) - 1
RECURSIVE Decimal(_)
Decimal(cs) ==
    IF cs = <<>> THEN 0
    ELSE 10 * Decimal(SubSeq(cs, 1, Len(cs) - 1)) + DigitValue(cs[Len(cs)])
\* ^[0-9]+\.[0-9] mi$
HasDistanceForm(s) ==
    /\ Len(s) >= 6
    /\ SubSeq(s, Len(s) - 2, Len(s)) = <<" ", "m", "i">>
    /\ IsDigit(s[Len(s) - 3])
    /\ s[Len(s) - 4] = "."
    /\ \A i \in 1..(Len(s) - 5) : IsDigit(s[i])
\* The number shown, in tenths.
ShownTenths(s) ==
    10 * Decimal(SubSeq(s, 1, Len(s) - 5)) + DigitValue(s[Len(s) - 3])

\* C8 as stated: the distance string has the form digits, point, digit,
\* " mi" and the number it shows is at least 0.5 and strictly less than 10.0.
C8_DistanceAsStated ==
    d # <<>>
    => /\ HasDistanceForm(d)
       /\ ShownTenths(d) >= UniformLowTenths
       /\ ShownTenths(d) < UniformHighTenths
\* C8 amended: the same form, and the number shown, the sample rounded to
\* one fractional digit, is at least 0.5 and at most 10.0: a sample of 9.95
\* or more is shown as "10.0 mi".
C8_Distance ==
    d # <<>>
    => /\ HasDistanceForm(d)
       /\ ShownTenths(d) >= UniformLowTenths
       /\ ShownTenths(d) <= UniformHighTenths
       /\ 2 * (Grid * ShownTenths(d) - 10 * u) <= Grid
       /\ 2 * (10 * u - Grid * ShownTenths(d)) <= Grid
\* A sample below 10.0 has been shown as "10.0 mi".
C8_Witness ==
    /\ d = <<"1", "0", ".", "0", " ", "m", "i">>
    /\ 10 * u < UniformHighTenths * Grid

\* C9 as stated: a failure of any storage access of list, create or claim is
\* caught in the handler and answered with a JSON error body; no exception
\* leaves a handler.
C9_AllFailuresCaughtAsStated ==
    \A t \in Threads :
       /\ pc[t] # "raised"
       /\ exc[t] # "" => pc[t] = "returned" /\ resp[t].key = "error"
\* C9 amended: a failing commit of create or claim is caught in the handler
\* and answered with a 500 JSON error body; a failing list query or a
\* failing lookup by id is not caught, its exception leaves the handler and
\* the handler produces no body.
C9_CommitFailuresCaught ==
    \A t \in Threads :
       /\ exc[t] = "commit"
          => /\ req[t].op \in {"create", "claim"}
             /\ pc[t] = "returned"
             /\ resp[t].code = 500 /\ resp[t].key = "error"
       /\ pc[t] = "raised"
          <=> \/ exc[t] = "query" /\ req[t].op = "list"
              \/ exc[t] = "get" /\ req[t].op = "claim"
       /\ pc[t] = "raised" => resp[t] = NoResp /\ table = before[t]
\* A list query has raised out of its handler and a create has had its
\* commit failure caught.
C9_Witness ==
    /\ prev.op = "list" /\ prev.code = 0
    /\ \E t \in Threads :
          exc[t] = "commit" /\ req[t].op = "create" /\ resp[t].code = 500

\* The two halves of C10: row i carries id i, and what a step may change.
C10_IdsKept == \A i \in 1..Len(table) : table[i].id = i
C10_FrameStep ==
    /\ Len(table') >= Len(table)
    /\ \A i \in 1..Len(table) :
          /\ [table'[i] EXCEPT !.status = table[i].status] = table[i]
          /\ table'[i] # table[i]
             => \E t \in Threads :
                   /\ req[t].op = "claim" /\ req[t].id = i
                   /\ pc[t] = "claim_commit" /\ pc'[t] = "returned"
    /\ \A t \in Threads :
          req[t].op = "claim" /\ pc'[t] # pc[t]
          => /\ Len(table') = Len(table)
             /\ \A j \in 1..Len(table) :
                   j # req[t].id => table'[j] = table[j]
    /\ \A t \in Threads :
          (req[t].op = "list" \/ req'[t].op = "list") /\ pc'[t] # pc[t]
          => table' = table
\* C10: rows are never removed and keep their ids; a step changes an
\* existing row only in its status, only as the commit of a claim and only
\* the row of that claim's id; a list changes nothing.
C10_OnlyStatusChanges == []C10_IdsKept /\ [][C10_FrameStep]_vars
\* Two rows of different distance, the second claimed and the first not,
\* with a list served since.
C10_Witness ==
    /\ Len(table) = 2
    /\ table[1].status = "pending" /\ table[2].status = "claimed"
    /\ table[1].distance # table[2].distance
    /\ prev.op = "list"

====
